---------------------------- MODULE Spec2Model ----------------------------
(***************************************************************************)
(* The OAuth login flow of agbcloud-cli: runLogin (cmd/login.go), the      *)
(* background goroutine it starts, and the collaborators it calls          *)
(* (internal/auth, the REST client, the config store, the browser).        *)
(*                                                                         *)
(* Ports, URLs and tokens are Go strings and are TLA+ strings here; an     *)
(* authorization code is a sequence of characters so that its length and   *)
(* its display prefix can be computed.                                     *)
(***************************************************************************)
EXTENDS Naturals, Sequences, FiniteSets, TLC

(* ------------------------------ bounds -------------------------------- *)
\* longest alternativePorts list the server sends
MaxAlts == 2
\* how many requests to a path other than /callback reach the listener
MaxOtherReq == 1
\* longest authorization code whose display is checked on its own
MaxCodeLen == 22

(* ---------------------------- value sets ------------------------------ *)
DefaultPort == "9999"
AltPorts == {"9998", "10000"}
Ports == {DefaultPort} \cup AltPorts
\* an entry of the comma-separated alternativePorts value: a port, or an
\* entry that does not parse as a port number
BadEntry == "abc"
Entries == AltPorts \cup {BadEntry}
CSVs == UNION {[1..n -> Entries] : n \in 0..MaxAlts}

NoPort == "none"
URLs == {"", "https://idp/a", "https://idp/b"}
\* the first response carries the empty URL or one URL; the second response
\* may carry the same URL or another one
URLs1 == {"", "https://idp/a"}

DisplayLen == 20
CodeOfLen(n) == [i \in 1..n |-> "c"]
CodeLens == {6, 25}
Codes == {CodeOfLen(n) : n \in CodeLens}
NoCode == <<>>

ApiErrs == {"none", "api", "network"}
NoResp == [err |-> "unset", success |-> FALSE, invokeURL |-> "", alternativePorts |-> <<>>]
\* a transport / API error, a response with success = false, or a successful
\* response with any invokeURL and any alternativePorts value
FailedURLResponses ==
    {[err |-> e, success |-> FALSE, invokeURL |-> "", alternativePorts |-> <<>>] :
        e \in ApiErrs}
URLResponses ==
    FailedURLResponses
    \cup [err : {"none"}, success : {TRUE}, invokeURL : URLs1, alternativePorts : CSVs]
\* runLogin never reads the alternativePorts of the second response
URLResponses2 ==
    FailedURLResponses
    \cup [err : {"none"}, success : {TRUE}, invokeURL : URLs, alternativePorts : {<<>>}]

TokenData == [loginToken : {"", "LT"}, sessionId : {"", "SID"},
              keepAliveToken : {"", "KA"}, expiresAt : {"", "EXP"}]
NoData == [loginToken |-> "", sessionId |-> "", keepAliveToken |-> "", expiresAt |-> ""]
NoExchange == [err |-> "unset", success |-> FALSE, data |-> NoData]
\* runLogin reads the data of a response only when success is true
ExchangeResponses ==
    {[err |-> e, success |-> FALSE, data |-> NoData] : e \in ApiErrs}
    \cup [err : {"none"}, success : {TRUE}, data : TokenData]

\* what reaches the listener: a path and the code / error query parameters
Requests == [path : {"/callback", "/other"}, code : Codes \cup {NoCode},
             error : {"", "access_denied"}]

VARIABLES
    pc,            \* where runLogin is
    outcome,       \* what runLogin returned ("running" until it returns)
    occupied,      \* ports bound by other processes
    urlReqs,       \* OAuth URL requests issued, in order
    resp1,         \* response of the first OAuth URL request
    resp2,         \* response of the second OAuth URL request
    defaultProbe,  \* result of IsPortOccupied(defaultPort)
    occAtSelect,   \* ports occupied when SelectAvailablePort probed
    selectedPort,  \* selectedPort (line 90)
    finalPort,     \* finalPort (line 73)
    finalURL,      \* finalResponse.Data.InvokeURL
    finalFrom,     \* index in urlReqs of the request finalResponse answers
    gpc,           \* where the background goroutine is
    srv,           \* state of the CallbackServer
    srvPort,       \* port the CallbackServer was started on
    srvResult,     \* what StartCallbackServer returned
    handled,       \* callback requests the server processed
    otherReqs,     \* requests to other paths answered with not-found
    codeChan,      \* buffered channel of capacity 1
    errChan,       \* buffered channel of capacity 1
    sends,         \* sends of the goroutine: which channel, and whether the
                   \* deadline of callbackCtx had expired by then
    deadline,      \* callbackCtx deadline expired
    cancelled,     \* callbackCancel ran (deferred, on return)
    selected,      \* case of the select that resolved
    browser,       \* calls of browser.OpenURL
    code,          \* code received from codeChan
    exchangeReqs,  \* token-exchange requests issued
    exchResp,      \* response of the token exchange
    cfgLoads,      \* calls of config.GetConfig
    saveCalls,     \* calls of config.SaveTokens, with their arguments
    persist,       \* how persisting ended: none, loadFailed, saveFailed, saved
    printed        \* what was written to the terminal (secrets and code)

vars == <<pc, outcome, occupied, urlReqs, resp1, resp2, defaultProbe,
          occAtSelect, selectedPort, finalPort, finalURL, finalFrom, gpc, srv,
          srvPort, srvResult, handled, otherReqs, codeChan, errChan, sends,
          deadline, cancelled, selected, browser, code, exchangeReqs, exchResp,
          cfgLoads, saveCalls, persist, printed>>

negVars == <<urlReqs, resp1, resp2, defaultProbe, occAtSelect, selectedPort,
            finalPort, finalURL, finalFrom>>
tailVars == <<browser, exchangeReqs, exchResp, cfgLoads, saveCalls, persist, printed>>
srvVars == <<gpc, srv, srvPort, srvResult, handled, otherReqs>>
chanVars == <<codeChan, errChan, sends>>
envVars == <<occupied>>

(* ------------------------------ helpers ------------------------------- *)
\* variant: the bound of the slice is always the second argument
min_Second(a, b) == b

min(a, b) == IF a < b THEN a ELSE b

\* fmt.Sprintf("http://localhost:%s", port)
RedirectBase(port) == <<"http://localhost:", port>>

\* auth.IsPortOccupied: a transient bind on the port fails
IsPortOccupied(port, occ) == port \in occ

\* the entries of the list that parse as port numbers, in the server's order
RECURSIVE ParsePorts(_)
ParsePorts(csv) ==
    IF csv = <<>> THEN <<>>
    ELSE IF Head(csv) \in Ports THEN <<Head(csv)>> \o ParsePorts(Tail(csv))
    ELSE ParsePorts(Tail(csv))

RECURSIVE FirstFree(_, _)
FirstFree(cands, occ) ==
    IF cands = <<>> THEN NoPort
    ELSE IF ~IsPortOccupied(Head(cands), occ) THEN Head(cands)
    ELSE FirstFree(Tail(cands), occ)

\* variant: the candidates probed from the end of the list
RECURSIVE LastFree(_, _)
LastFree(cands, occ) ==
    IF cands = <<>> THEN NoPort
    ELSE IF ~IsPortOccupied(cands[Len(cands)], occ) THEN cands[Len(cands)]
    ELSE LastFree(SubSeq(cands, 1, Len(cands) - 1), occ)

\* variant: the last free candidate is returned
SelectAvailablePort_Last(defaultPort, csv, occ) == LastFree(ParsePorts(csv), occ)

\* auth.SelectAvailablePort: the first free candidate, NoPort for
\* NoPortAvailable
SelectAvailablePort(defaultPort, csv, occ) == FirstFree(ParsePorts(csv), occ)


(* ------------------------------- Init --------------------------------- *)
NoPrint == [codePrefix |-> NoCode, tokens |-> {}, warnings |-> {}]
NoResult == [kind |-> "none", cause |-> "", code |-> NoCode]

Init ==
    /\ pc = "start"
    /\ outcome = "running"
    /\ occupied \in SUBSET Ports
    /\ urlReqs = <<>>
    /\ resp1 = NoResp
    /\ resp2 = NoResp
    /\ defaultProbe = "unprobed"
    /\ occAtSelect = {}
    /\ selectedPort = NoPort
    /\ finalPort = NoPort
    /\ finalURL = ""
    /\ finalFrom = 0
    /\ gpc = "none"
    /\ srv = "Idle"
    /\ srvPort = NoPort
    /\ srvResult = NoResult
    /\ handled = 0
    /\ otherReqs = 0
    /\ codeChan = <<>>
    /\ errChan = <<>>
    /\ sends = <<>>
    /\ deadline = FALSE
    /\ cancelled = FALSE
    /\ selected = "none"
    /\ browser = <<>>
    /\ code = NoCode
    /\ exchangeReqs = <<>>
    /\ exchResp = NoExchange
    /\ cfgLoads = 0
    /\ saveCalls = <<>>
    /\ persist = "none"
    /\ printed = NoPrint

(* ------------------------ runLogin: negotiation ----------------------- *)
\* a return before callbackCtx exists
ReturnEarly(o) ==
    /\ pc' = "done"
    /\ outcome' = o
    /\ UNCHANGED cancelled

\* a return after line 144: the deferred callbackCancel runs
ReturnAfterLaunch(o) ==
    /\ pc' = "done"
    /\ outcome' = o
    /\ cancelled' = TRUE

\* port embedded in the redirectBase of the first request (line 52)
FirstRedirectPort == DefaultPort

\* port embedded in the redirectBase of the second request (line 107)
SecondRedirectPort == selectedPort

\* variant: a failed first request is repeated once
RequestURL1_Retry ==
    /\ pc = "start"
    /\ \E r \in URLResponses :
        /\ urlReqs' = Append(urlReqs, [redirectBase |-> RedirectBase(FirstRedirectPort),
                                       localhostPort |-> NoPort])
        /\ resp1' = r
        /\ IF r.err # "none" \/ ~r.success
             THEN IF Len(urlReqs) = 0
                    THEN UNCHANGED <<pc, outcome, cancelled>>
                    ELSE ReturnEarly("OAuthRequestFailed")
             ELSE pc' = "probe" /\ UNCHANGED <<outcome, cancelled>>
    /\ UNCHANGED <<resp2, defaultProbe, occAtSelect, selectedPort, finalPort,
                   finalURL, finalFrom, selected, code, deadline>>
    /\ UNCHANGED <<tailVars, srvVars, chanVars, envVars>>

\* lines 52-70: the first OAuth URL request
RequestURL1 ==
    /\ pc = "start"
    /\ \E r \in URLResponses :
        /\ urlReqs' = Append(urlReqs, [redirectBase |-> RedirectBase(FirstRedirectPort),
                                       localhostPort |-> NoPort])
        /\ resp1' = r
        /\ IF r.err # "none" \/ ~r.success
             THEN ReturnEarly("OAuthRequestFailed")
             ELSE pc' = "probe" /\ UNCHANGED <<outcome, cancelled>>
    /\ UNCHANGED <<resp2, defaultProbe, occAtSelect, selectedPort, finalPort,
                   finalURL, finalFrom, selected, code, deadline>>
    /\ UNCHANGED <<tailVars, srvVars, chanVars, envVars>>

\* lines 76-87: the probe of the default port
ProbeDefault ==
    /\ pc = "probe"
    /\ IF ~IsPortOccupied(DefaultPort, occupied)
         THEN /\ defaultProbe' = "free"
              /\ finalPort' = DefaultPort
              /\ finalURL' = resp1.invokeURL
              /\ finalFrom' = 1
              /\ pc' = "validate"
              /\ UNCHANGED <<outcome, cancelled>>
         ELSE /\ defaultProbe' = "occupied"
              /\ UNCHANGED <<finalPort, finalURL, finalFrom>>
              /\ IF resp1.alternativePorts = <<>>
                   THEN ReturnEarly("PortUnavailable")
                   ELSE pc' = "negotiate" /\ UNCHANGED <<outcome, cancelled>>
    /\ UNCHANGED <<urlReqs, resp1, resp2, occAtSelect, selectedPort, selected,
                   code, deadline>>
    /\ UNCHANGED <<tailVars, srvVars, chanVars, envVars>>

\* variant: the error of the selection is ignored and the default port kept
Negotiate_Fallback ==
    /\ pc = "negotiate"
    /\ occAtSelect' = occupied
    /\ LET p == SelectAvailablePort(DefaultPort, resp1.alternativePorts, occupied) IN
         selectedPort' = IF p = NoPort THEN DefaultPort ELSE p
    /\ pc' = "request2"
    /\ UNCHANGED <<outcome, cancelled>>
    /\ UNCHANGED <<urlReqs, resp1, resp2, defaultProbe, finalPort, finalURL,
                   finalFrom, selected, code, deadline>>
    /\ UNCHANGED <<tailVars, srvVars, chanVars, envVars>>

\* lines 90-104: the selection among the alternatives
Negotiate ==
    /\ pc = "negotiate"
    /\ occAtSelect' = occupied
    /\ LET p == SelectAvailablePort(DefaultPort, resp1.alternativePorts, occupied) IN
         IF p = NoPort
           THEN ReturnEarly("PortUnavailable") /\ UNCHANGED selectedPort
           ELSE /\ selectedPort' = p
                /\ pc' = "request2"
                /\ UNCHANGED <<outcome, cancelled>>
    /\ UNCHANGED <<urlReqs, resp1, resp2, defaultProbe, finalPort, finalURL,
                   finalFrom, selected, code, deadline>>
    /\ UNCHANGED <<tailVars, srvVars, chanVars, envVars>>

\* variant: the default port is kept after the second request
AdoptedPort_Default == DefaultPort

\* the port adopted as final after the second request (line 126)
AdoptedPort == selectedPort

\* lines 107-127: the second OAuth URL request, with the selected port
RequestURL2 ==
    /\ pc = "request2"
    /\ \E r \in URLResponses2 :
        /\ urlReqs' = Append(urlReqs, [redirectBase |-> RedirectBase(SecondRedirectPort),
                                       localhostPort |-> selectedPort])
        /\ resp2' = r
        /\ IF r.err # "none" \/ ~r.success
             THEN /\ ReturnEarly("OAuthRequestFailed")
                  /\ UNCHANGED <<finalPort, finalURL, finalFrom>>
             ELSE /\ finalPort' = AdoptedPort
                  /\ finalURL' = r.invokeURL
                  /\ finalFrom' = 2
                  /\ pc' = "validate"
                  /\ UNCHANGED <<outcome, cancelled>>
    /\ UNCHANGED <<resp1, defaultProbe, occAtSelect, selectedPort, selected,
                   code, deadline>>
    /\ UNCHANGED <<tailVars, srvVars, chanVars, envVars>>

\* variant: the final URL is not looked at
ValidateURL_Skip ==
    /\ pc = "validate"
    /\ pc' = "launch"
    /\ UNCHANGED <<outcome, cancelled>>
    /\ UNCHANGED <<negVars, selected, code, deadline>>
    /\ UNCHANGED <<tailVars, srvVars, chanVars, envVars>>

\* lines 130-132: the final URL must not be empty
ValidateURL ==
    /\ pc = "validate"
    /\ IF finalURL = ""
         THEN ReturnEarly("EmptyOAuthURL")
         ELSE pc' = "launch" /\ UNCHANGED <<outcome, cancelled>>
    /\ UNCHANGED <<negVars, selected, code, deadline>>
    /\ UNCHANGED <<tailVars, srvVars, chanVars, envVars>>

(* ------------------- runLogin: server, browser, wait ------------------ *)
\* lines 144-158: callbackCtx, the two channels, the goroutine
LaunchServer ==
    /\ pc = "launch"
    /\ gpc' = "started"
    /\ codeChan' = <<>>
    /\ errChan' = <<>>
    /\ pc' = "sleep"
    /\ UNCHANGED <<outcome, cancelled, selected, code, deadline, sends>>
    /\ UNCHANGED <<srv, srvPort, srvResult, handled, otherReqs>>
    /\ UNCHANGED <<negVars, tailVars, envVars>>

\* line 161: time.Sleep(100ms); it waits for nothing but the clock
Sleep ==
    /\ pc = "sleep"
    /\ pc' = "open"
    /\ UNCHANGED <<outcome, cancelled, selected, code, deadline>>
    /\ UNCHANGED <<negVars, tailVars, srvVars, chanVars, envVars>>

\* variant: the URL of the first response is opened
BrowserURL_First == resp1.invokeURL

\* the URL handed to the browser (line 171)
BrowserURL == finalURL

\* variant: a failure of browser.OpenURL ends the login
OpenBrowser_Fatal ==
    /\ pc = "open"
    /\ \E ok \in BOOLEAN :
        /\ browser' = Append(browser, [url |-> BrowserURL,
                                       listening |-> (srv = "Listening"), ok |-> ok])
        /\ IF ok THEN pc' = "select" /\ UNCHANGED <<outcome, cancelled>>
                 ELSE ReturnAfterLaunch("BrowserFailed")
    /\ UNCHANGED <<selected, code, deadline>>
    /\ UNCHANGED <<exchangeReqs, exchResp, cfgLoads, saveCalls, persist, printed>>
    /\ UNCHANGED <<negVars, srvVars, chanVars, envVars>>

\* lines 163-180: browser.OpenURL; its failure is only printed. Each call is
\* recorded with whether the listener was bound when it was made.
OpenBrowser ==
    /\ pc = "open"
    /\ \E ok \in BOOLEAN :
        browser' = Append(browser, [url |-> BrowserURL, listening |-> (srv = "Listening"),
                                    ok |-> ok])
    /\ pc' = "select"
    /\ UNCHANGED <<outcome, cancelled, selected, code, deadline>>
    /\ UNCHANGED <<exchangeReqs, exchResp, cfgLoads, saveCalls, persist, printed>>
    /\ UNCHANGED <<negVars, srvVars, chanVars, envVars>>

\* the cases of the select (line 183) that can proceed
Ready ==
    (IF codeChan # <<>> THEN {"code"} ELSE {})
    \cup (IF errChan # <<>> THEN {"err"} ELSE {})
    \cup (IF deadline \/ cancelled THEN {"done"} ELSE {})

\* line 183: the select is reached. A case that can proceed is taken, any
\* one of them when several can; with none the goroutine parks on all three.
SelectPoll ==
    /\ pc = "select"
    /\ IF Ready = {}
         THEN pc' = "parked" /\ UNCHANGED <<selected, code, codeChan, errChan>>
         ELSE \E c \in Ready :
                /\ selected' = c
                /\ pc' = "resolved"
                /\ code' = IF c = "code" THEN Head(codeChan) ELSE code
                /\ codeChan' = IF c = "code" THEN Tail(codeChan) ELSE codeChan
                /\ errChan' = IF c = "err" THEN Tail(errChan) ELSE errChan
    /\ UNCHANGED <<outcome, cancelled, deadline, sends>>
    /\ UNCHANGED <<negVars, tailVars, srvVars, envVars>>

\* what a slice expression with a bound beyond the length does in Go
Panic == <<"panic: slice bounds out of range">>

\* the slice expression code[:n] (line 186)
Slice(c, n) == IF n < 0 \/ n > Len(c) THEN Panic ELSE SubSeq(c, 1, n)

\* the prefix of the code that is displayed (line 186)
DisplayPrefix(c) == Slice(c, min(Len(c), DisplayLen))

\* lines 184-186: case code := <-codeChan
OnCode ==
    /\ pc = "resolved"
    /\ selected = "code"
    /\ printed' = [printed EXCEPT !.codePrefix = DisplayPrefix(code)]
    /\ pc' = "exchange"
    /\ UNCHANGED <<outcome, cancelled, selected, code, deadline>>
    /\ UNCHANGED <<browser, exchangeReqs, exchResp, cfgLoads, saveCalls, persist>>
    /\ UNCHANGED <<negVars, srvVars, chanVars, envVars>>

\* variant: the error of the callback server is dropped
OnErr_Swallow ==
    /\ pc = "resolved"
    /\ selected = "err"
    /\ ReturnAfterLaunch("Success")
    /\ UNCHANGED <<selected, code, deadline>>
    /\ UNCHANGED <<negVars, tailVars, srvVars, chanVars, envVars>>

\* lines 267-268: case err := <-errChan
OnErr ==
    /\ pc = "resolved"
    /\ selected = "err"
    /\ ReturnAfterLaunch("CallbackFailed")
    /\ UNCHANGED <<selected, code, deadline>>
    /\ UNCHANGED <<negVars, tailVars, srvVars, chanVars, envVars>>

\* lines 269-270: case <-callbackCtx.Done()
OnDone ==
    /\ pc = "resolved"
    /\ selected = "done"
    /\ ReturnAfterLaunch("CallbackTimeout")
    /\ UNCHANGED <<selected, code, deadline>>
    /\ UNCHANGED <<negVars, tailVars, srvVars, chanVars, envVars>>

(* ---------------------- runLogin: token exchange ---------------------- *)
\* variant: the exchange always names the default port
ExchangePort_Default == DefaultPort

\* the port bound into the exchange request (line 195)
ExchangePort == finalPort

\* variant: the success flag of the response is not looked at
ShouldSave_Always(r) == TRUE

\* line 219: the tokens are shown and saved only on success
ShouldSave(r) == r.success

\* variant: the first two arguments exchanged
SaveArgs_Swapped(d) == <<d.sessionId, d.loginToken, d.keepAliveToken, d.expiresAt>>

\* lines 247-252: the arguments of SaveTokens
SaveArgs(d) == <<d.loginToken, d.sessionId, d.keepAliveToken, d.expiresAt>>

\* variant: a persistence failure fails the command
PersistFailureOutcome_Fails == "PersistenceFailed"

\* lines 244 and 256: what runLogin returns when the tokens were not saved
\* (return nil)
PersistFailureOutcome == "Success"

\* lines 221-235: each token is printed, or a warning when it is empty
TokenPrints(d) == {d.loginToken, d.sessionId, d.keepAliveToken} \ {""}

EmptyWarnings(d) ==
    (IF d.loginToken = "" THEN {"empty loginToken"} ELSE {})
    \cup (IF d.sessionId = "" THEN {"empty sessionId"} ELSE {})
    \cup (IF d.keepAliveToken = "" THEN {"empty keepAliveToken"} ELSE {})

\* lines 188-266: LoginTranslateWithPort, then GetConfig and SaveTokens.
\* cfgOk and saveOk are what GetConfig and SaveTokens return; where a call is
\* not made its result is fixed, so that each outcome is generated once.
Exchange ==
    /\ pc = "exchange"
    /\ \E r \in ExchangeResponses, cfgOk \in BOOLEAN, saveOk \in BOOLEAN :
        /\ exchangeReqs' = Append(exchangeReqs, [code |-> code, port |-> ExchangePort])
        /\ exchResp' = r
        /\ IF r.err # "none"
             THEN /\ cfgOk /\ saveOk
                  /\ ReturnAfterLaunch("TokenExchangeFailed")
                  /\ UNCHANGED <<cfgLoads, saveCalls, persist, printed>>
             ELSE IF ShouldSave(r)
               THEN /\ cfgLoads' = cfgLoads + 1
                    /\ IF ~cfgOk
                         THEN /\ ~saveOk
                              /\ UNCHANGED saveCalls
                              /\ persist' = "loadFailed"
                              /\ printed' = [printed EXCEPT
                                    !.tokens = @ \cup TokenPrints(r.data),
                                    !.warnings = @ \cup EmptyWarnings(r.data)
                                                   \cup {"config not loaded"}]
                              /\ ReturnAfterLaunch(PersistFailureOutcome)
                         ELSE /\ saveCalls' = Append(saveCalls, SaveArgs(r.data))
                              /\ persist' = IF saveOk THEN "saved" ELSE "saveFailed"
                              /\ printed' = [printed EXCEPT
                                    !.tokens = @ \cup TokenPrints(r.data),
                                    !.warnings = @ \cup EmptyWarnings(r.data)
                                       \cup (IF saveOk THEN {} ELSE {"tokens not saved"})]
                              /\ ReturnAfterLaunch(IF saveOk THEN "Success"
                                                   ELSE PersistFailureOutcome)
               ELSE /\ cfgOk /\ saveOk
                    /\ ReturnAfterLaunch("TokenExchangeFailed")
                    /\ UNCHANGED <<cfgLoads, saveCalls, persist, printed>>
    /\ UNCHANGED <<browser, selected, code, deadline>>
    /\ UNCHANGED <<negVars, srvVars, chanVars, envVars>>

(* ------------- the goroutine and auth.StartCallbackServer ------------- *)
\* variant: the server is always started on the default port
ServerPort_Default == DefaultPort

\* the port StartCallbackServer is called with (line 152)
ServerPort == finalPort

\* StartCallbackServer binds its listener; the bind is the authoritative one
ServerBind ==
    /\ gpc = "started"
    /\ srvPort' = ServerPort
    /\ IF IsPortOccupied(ServerPort, occupied)
         THEN /\ srv' = "BindFailed"
              /\ srvResult' = [kind |-> "err", cause |-> "listen", code |-> NoCode]
              /\ gpc' = "returned"
         ELSE /\ srv' = "Listening"
              /\ gpc' = "serving"
              /\ UNCHANGED srvResult
    /\ UNCHANGED <<handled, otherReqs>>
    /\ UNCHANGED <<pc, outcome, cancelled, selected, code, deadline>>
    /\ UNCHANGED <<negVars, tailVars, chanVars, envVars>>

\* what a request to the callback path yields: the error parameter, else the
\* code parameter, else the request is malformed
CallbackResult(req) ==
    IF req.error # "" THEN [kind |-> "err", cause |-> req.error, code |-> NoCode]
    ELSE IF req.code # NoCode THEN [kind |-> "code", cause |-> "", code |-> req.code]
    ELSE [kind |-> "err", cause |-> "malformed", code |-> NoCode]

\* variant: the server keeps listening after a callback request
ServerCallback_Stay ==
    /\ srv = "Listening"
    /\ handled < 2
    /\ \E req \in Requests :
        /\ req.path = "/callback"
        /\ srvResult' = CallbackResult(req)
    /\ handled' = handled + 1
    /\ UNCHANGED <<srv, gpc, srvPort, otherReqs>>
    /\ UNCHANGED <<pc, outcome, cancelled, selected, code, deadline>>
    /\ UNCHANGED <<negVars, tailVars, chanVars, envVars>>

\* a request to the callback path: answered, the server shuts down and returns
ServerCallback ==
    /\ srv = "Listening"
    /\ \E req \in Requests :
        /\ req.path = "/callback"
        /\ srvResult' = CallbackResult(req)
    /\ handled' = handled + 1
    /\ srv' = "Fulfilled"
    /\ gpc' = "returned"
    /\ UNCHANGED <<srvPort, otherReqs>>
    /\ UNCHANGED <<pc, outcome, cancelled, selected, code, deadline>>
    /\ UNCHANGED <<negVars, tailVars, chanVars, envVars>>

\* a request to any other path: not-found, the server keeps waiting
ServerOther ==
    /\ srv = "Listening"
    /\ otherReqs < MaxOtherReq
    /\ \E req \in Requests : req.path # "/callback"
    /\ otherReqs' = otherReqs + 1
    /\ UNCHANGED <<gpc, srv, srvPort, srvResult, handled>>
    /\ UNCHANGED <<pc, outcome, cancelled, selected, code, deadline>>
    /\ UNCHANGED <<negVars, tailVars, chanVars, envVars>>

\* variant: the server returns the timeout error without closing the listener
ServerTimeout_Leak ==
    /\ srv = "Listening"
    /\ gpc = "serving"
    /\ deadline \/ cancelled
    /\ srvResult' = [kind |-> "err", cause |-> "timeout", code |-> NoCode]
    /\ gpc' = "returned"
    /\ UNCHANGED <<srv, srvPort, handled, otherReqs>>
    /\ UNCHANGED <<pc, outcome, cancelled, selected, code, deadline>>
    /\ UNCHANGED <<negVars, tailVars, chanVars, envVars>>

\* the server sees its context done: it shuts down and returns a timeout error
ServerTimeout ==
    /\ srv = "Listening"
    /\ deadline \/ cancelled
    /\ srv' = "TimedOut"
    /\ srvResult' = [kind |-> "err", cause |-> "timeout", code |-> NoCode]
    /\ gpc' = "returned"
    /\ UNCHANGED <<srvPort, handled, otherReqs>>
    /\ UNCHANGED <<pc, outcome, cancelled, selected, code, deadline>>
    /\ UNCHANGED <<negVars, tailVars, chanVars, envVars>>

\* variant: the channels are unbuffered, a send needs a parked receiver
GoroutineSend_Unbuffered ==
    /\ gpc = "returned"
    /\ pc = "parked"
    /\ gpc' = "exited"
    /\ LET ch == IF srvResult.kind = "err" THEN "err" ELSE "code" IN
        /\ sends' = Append(sends, [ch |-> ch, expired |-> deadline])
        /\ pc' = "resolved"
        /\ selected' = ch
        /\ code' = IF ch = "code" THEN srvResult.code ELSE code
        /\ UNCHANGED <<codeChan, errChan>>
    /\ UNCHANGED <<srv, srvPort, srvResult, handled, otherReqs>>
    /\ UNCHANGED <<outcome, cancelled, deadline>>
    /\ UNCHANGED <<negVars, tailVars, envVars>>

\* lines 153-157: the goroutine sends the error or the code and ends. Both
\* channels have capacity 1 and get one send at most. A receiver parked in
\* the select takes the value at once, which resolves the select.
GoroutineSend ==
    /\ gpc = "returned"
    /\ gpc' = "exited"
    /\ LET ch == IF srvResult.kind = "err" THEN "err" ELSE "code" IN
        /\ IF ch = "err" THEN Len(errChan) < 1 ELSE Len(codeChan) < 1
        /\ sends' = Append(sends, [ch |-> ch, expired |-> deadline])
        /\ IF pc = "parked"
             THEN /\ pc' = "resolved"
                  /\ selected' = ch
                  /\ code' = IF ch = "code" THEN srvResult.code ELSE code
                  /\ UNCHANGED <<codeChan, errChan>>
             ELSE /\ codeChan' = IF ch = "code" THEN Append(codeChan, srvResult.code)
                                 ELSE codeChan
                  /\ errChan' = IF ch = "err" THEN Append(errChan, srvResult.cause)
                                ELSE errChan
                  /\ UNCHANGED <<pc, selected, code>>
    /\ UNCHANGED <<srv, srvPort, srvResult, handled, otherReqs>>
    /\ UNCHANGED <<outcome, cancelled, deadline>>
    /\ UNCHANGED <<negVars, tailVars, envVars>>

(* --------------------------- the environment -------------------------- *)
\* line 144: the 5 minute deadline of callbackCtx passes. A select parked on
\* callbackCtx.Done() is resolved by it. Once the select has resolved nothing
\* reads the deadline any more.
DeadlineExpires ==
    /\ pc \in {"sleep", "open", "select", "parked"}
    /\ ~deadline
    /\ deadline' = TRUE
    /\ IF pc = "parked"
         THEN pc' = "resolved" /\ selected' = "done"
         ELSE UNCHANGED <<pc, selected>>
    /\ UNCHANGED <<outcome, cancelled, code>>
    /\ UNCHANGED <<negVars, tailVars, srvVars, chanVars, envVars>>

\* the port held by the CallbackServer
ListenerPort == IF srv = "Listening" THEN {srvPort} ELSE {}

\* another process binds a free port between the first probe and the bind of
\* the listener (before the first probe it is part of the initial state,
\* after the bind nothing probes a port any more); ports are not released
\* during the run
OtherProcessBinds ==
    /\ pc # "done"
    /\ defaultProbe # "unprobed"
    /\ gpc \in {"none", "started"}
    /\ \E p \in Ports \ (occupied \cup ListenerPort) : occupied' = occupied \cup {p}
    /\ UNCHANGED <<pc, outcome, cancelled, selected, code, deadline>>
    /\ UNCHANGED <<negVars, tailVars, srvVars, chanVars>>

\* lines 23-25: RunE hands the error of runLogin to the command runner; the
\* command fails exactly when runLogin returned an error
ReturnedError == pc = "done" /\ outcome # "Success"

(* ------------------------------- Next --------------------------------- *)
Next ==
    \/ RequestURL1
    \/ ProbeDefault
    \/ Negotiate
    \/ RequestURL2
    \/ ValidateURL
    \/ LaunchServer
    \/ Sleep
    \/ OpenBrowser
    \/ SelectPoll
    \/ OnCode
    \/ OnErr
    \/ OnDone
    \/ Exchange
    \/ ServerBind
    \/ ServerCallback
    \/ ServerOther
    \/ ServerTimeout
    \/ GoroutineSend
    \/ DeadlineExpires
    \/ OtherProcessBinds

Spec == Init /\ [][Next]_vars

\* The code case of the select for a code of every length up to MaxCodeLen:
\* the state in which the select has just received the code (default port
\* free, server fulfilled, goroutine ended), then lines 184-266.
DisplayCodes == {CodeOfLen(n) : n \in 0..MaxCodeLen}

DisplayInit ==
    /\ pc = "resolved"
    /\ selected = "code"
    /\ code \in DisplayCodes
    /\ outcome = "running"
    /\ occupied \in SUBSET AltPorts
    /\ urlReqs = <<[redirectBase |-> RedirectBase(FirstRedirectPort),
                    localhostPort |-> NoPort]>>
    /\ resp1 = [err |-> "none", success |-> TRUE, invokeURL |-> "https://idp/a",
                alternativePorts |-> <<>>]
    /\ resp2 = NoResp
    /\ defaultProbe = "free"
    /\ occAtSelect = {}
    /\ selectedPort = NoPort
    /\ finalPort = DefaultPort
    /\ finalURL = "https://idp/a"
    /\ finalFrom = 1
    /\ gpc = "exited"
    /\ srv = "Fulfilled"
    /\ srvPort = DefaultPort
    /\ srvResult = [kind |-> "code", cause |-> "", code |-> code]
    /\ handled = 1
    /\ otherReqs = 0
    /\ codeChan = <<>>
    /\ errChan = <<>>
    /\ sends = <<[ch |-> "code", expired |-> FALSE]>>
    /\ deadline = FALSE
    /\ cancelled = FALSE
    /\ \E ok \in BOOLEAN :
          browser = <<[url |-> "https://idp/a", listening |-> TRUE, ok |-> ok]>>
    /\ exchangeReqs = <<>>
    /\ exchResp = NoExchange
    /\ cfgLoads = 0
    /\ saveCalls = <<>>
    /\ persist = "none"
    /\ printed = NoPrint

DisplayNext ==
    \/ OnCode
    \/ Exchange

SpecDisplay == DisplayInit /\ [][DisplayNext]_vars

\* a goroutine that can run is run: the Go scheduler does not starve the
\* goroutine of lines 151-158 once StartCallbackServer has returned
\* The goroutine reads nothing of the exchange payload, so under fairness the
\* payload is drawn with all four fields set or none.
FullData == [loginToken |-> "LT", sessionId |-> "SID", keepAliveToken |-> "KA",
             expiresAt |-> "EXP"]

FairExchange == Exchange /\ exchResp'.data \in {NoData, FullData}

FairNext ==
    \/ RequestURL1
    \/ ProbeDefault
    \/ Negotiate
    \/ RequestURL2
    \/ ValidateURL
    \/ LaunchServer
    \/ Sleep
    \/ OpenBrowser
    \/ SelectPoll
    \/ OnCode
    \/ OnErr
    \/ OnDone
    \/ FairExchange
    \/ ServerBind
    \/ ServerCallback
    \/ ServerOther
    \/ ServerTimeout
    \/ GoroutineSend
    \/ DeadlineExpires
    \/ OtherProcessBinds

FairSpec == Init /\ [][FairNext]_vars /\ WF_vars(GoroutineSend)

(* ------------------------------ claims -------------------------------- *)
\* the exchange was answered, without transport error
ExchangeAnswered == exchangeReqs # <<>> /\ exchResp.err = "none"

\* the response of the request that finalResponse answers
FinalResponse == IF finalFrom = 1 THEN resp1 ELSE resp2

\* the alternative at position i of the first response is a port and was
\* occupied when the alternatives were probed
OccupiedAlt(i) ==
    resp1.alternativePorts[i] \in Ports => resp1.alternativePorts[i] \in occAtSelect

\* the alternatives were probed (the default port was occupied before)
Negotiated == defaultProbe = "occupied" /\ pc \notin {"probe", "negotiate"}
              /\ resp1.alternativePorts # <<>>

\* C1: SaveTokens is called at most once, and only after a code was received
\* and the exchange response had success = true; when the response has
\* success = false, login fails with TokenExchangeFailed and nothing is saved.
C1_SaveOnlyOnSuccess ==
    /\ Len(saveCalls) <= 1
    /\ saveCalls # <<>> =>
          /\ selected = "code"
          /\ code # NoCode
          /\ ExchangeAnswered
          /\ exchResp.success
    /\ (ExchangeAnswered /\ ~exchResp.success) =>
          /\ outcome = "TokenExchangeFailed"
          /\ saveCalls = <<>>

C1_Witness == Len(saveCalls) = 1 /\ exchResp.success /\ outcome = "Success"

\* C2: when login returns CallbackTimeout, the callback listener has stopped
\* and no longer holds the port.
C2_NoListenerAtTimeout ==
    [][(outcome = "running" /\ outcome' = "CallbackTimeout") => srv' # "Listening"]_vars

\* C3: the browser is opened only while the callback listener is bound.
C3_BrowserAfterListening == \A i \in DOMAIN browser : browser[i].listening

\* C4: the port the CallbackServer is started on is the port embedded in the
\* redirectBase of the OAuth URL request whose response gave the URL that is
\* opened in the browser, on the default-port and on the alternative-port path.
C4_ServerPortIsRedirectPort ==
    /\ srvPort # NoPort =>
          /\ finalFrom \in DOMAIN urlReqs
          /\ urlReqs[finalFrom].redirectBase = <<"http://localhost:", srvPort>>
    /\ \A i \in DOMAIN browser :
          /\ finalFrom \in DOMAIN urlReqs
          /\ browser[i].url = FinalResponse.invokeURL
          /\ finalFrom = IF defaultProbe = "free" THEN 1 ELSE 2

C4_Witness ==
    /\ srvPort \in AltPorts
    /\ finalFrom = 2
    /\ browser # <<>>
    /\ resp2.invokeURL # resp1.invokeURL

\* C5: when the exchange succeeded and the tokens could not be persisted
\* (GetConfig or SaveTokens returned an error), login still returns success
\* and a warning is printed.
C5_PersistFailureIsSuccess ==
    persist \in {"loadFailed", "saveFailed"} =>
        /\ exchResp.success
        /\ outcome = "Success"
        /\ printed.warnings \cap {"config not loaded", "tokens not saved"} # {}

C5_Witness == persist = "saveFailed" /\ outcome = "Success"

\* C6: when the deadline expires while the server listens and no callback
\* request has arrived, login fails with CallbackTimeout, never with
\* CallbackFailed.
C6_TimeoutIsCallbackTimeout ==
    (pc = "done" /\ deadline /\ handled = 0 /\ srv \in {"Listening", "TimedOut"})
        => outcome = "CallbackTimeout"

\* C7: SaveTokens gets the four values of the successful exchange payload,
\* unchanged and in the order loginToken, sessionId, keepAliveToken,
\* expiresAt; empty fields do not prevent the call (it is made whenever the
\* exchange succeeded and the config was loaded).
C7_SaveArgsArePayload ==
    /\ \A i \in DOMAIN saveCalls :
          /\ Len(saveCalls[i]) = 4
          /\ saveCalls[i][1] = exchResp.data.loginToken
          /\ saveCalls[i][2] = exchResp.data.sessionId
          /\ saveCalls[i][3] = exchResp.data.keepAliveToken
          /\ saveCalls[i][4] = exchResp.data.expiresAt
    /\ (ExchangeAnswered /\ exchResp.success /\ persist # "loadFailed")
          => Len(saveCalls) = 1

C7_Witness ==
    /\ Len(saveCalls) = 1
    /\ exchResp.data.loginToken = "LT"
    /\ exchResp.data.sessionId = ""
    /\ exchResp.data.keepAliveToken = "KA"
    /\ exchResp.data.expiresAt = ""

\* C8: an attempt that reaches the callback stage has selected exactly one
\* port: the default port when the default port probed free, whatever the
\* alternatives are, and otherwise an entry of the alternativePorts list of
\* the first response.
C8_PortIsDefaultOrAlternative ==
    gpc # "none" =>
        /\ finalPort \in Ports
        /\ srvPort \in {NoPort, finalPort}
        /\ IF defaultProbe = "free"
             THEN finalPort = DefaultPort
             ELSE /\ defaultProbe = "occupied"
                  /\ \E i \in DOMAIN resp1.alternativePorts :
                        resp1.alternativePorts[i] = finalPort

C8_Witness ==
    /\ srv = "Listening"
    /\ defaultProbe = "occupied"
    /\ finalPort = "10000"
    /\ resp1.alternativePorts = <<"abc", "10000">>

\* C9: when the default port is occupied and the alternatives list is empty
\* or every alternative is occupied, login ends with PortUnavailable: it has
\* made one OAuth URL request only, started no server, opened no browser,
\* and the negotiation is never blocked.
C9_NoPortEndsLogin ==
    /\ (/\ defaultProbe = "occupied"
        /\ pc # "negotiate"
        /\ \/ resp1.alternativePorts = <<>>
           \/ \A i \in DOMAIN resp1.alternativePorts : OccupiedAlt(i))
       => /\ pc = "done"
          /\ outcome = "PortUnavailable"
          /\ Len(urlReqs) = 1
          /\ gpc = "none"
          /\ srv = "Idle"
          /\ browser = <<>>
    /\ pc = "probe" => ENABLED ProbeDefault
    /\ pc = "negotiate" => ENABLED Negotiate

C9_Witness ==
    /\ outcome = "PortUnavailable"
    /\ resp1.alternativePorts = <<"9998", "10000">>
    /\ occAtSelect = Ports

\* C10: when at least one alternative is free, SelectAvailablePort returns
\* the first free candidate in the order of the list, entries that are no
\* port number skipped: every candidate before the returned one was occupied.
C10_FirstFreeInOrder ==
    /\ selectedPort # NoPort =>
          \E i \in DOMAIN resp1.alternativePorts :
             /\ resp1.alternativePorts[i] = selectedPort
             /\ selectedPort \in Ports \ occAtSelect
             /\ \A j \in 1..(i - 1) : OccupiedAlt(j)
    /\ (Negotiated /\ \E i \in DOMAIN resp1.alternativePorts : ~OccupiedAlt(i))
          => selectedPort # NoPort

C10_Witness ==
    /\ resp1.alternativePorts = <<"9998", "10000">>
    /\ occAtSelect = {"9999", "9998"}
    /\ selectedPort = "10000"

\* C11: when an alternative port was selected, a second OAuth URL request
\* with that port in its redirectBase has been issued before the browser is
\* opened, and the URL opened is the invokeURL of the second response.
C11_SecondRequestBeforeBrowser ==
    \A i \in DOMAIN browser :
        selectedPort # NoPort =>
            /\ Len(urlReqs) = 2
            /\ urlReqs[2].redirectBase = <<"http://localhost:", selectedPort>>
            /\ resp2.err = "none" /\ resp2.success
            /\ browser[i].url = resp2.invokeURL

C11_Witness ==
    /\ browser # <<>>
    /\ resp1.alternativePorts = <<"9998", "10000">>
    /\ selectedPort = "10000"
    /\ resp1.invokeURL = "https://idp/a"
    /\ resp2.invokeURL = "https://idp/b"

\* C12: a token-exchange request is issued only after the CallbackServer
\* returned an authorization code, and it carries that code and the port the
\* CallbackServer was started on.
C12_ExchangeCarriesCodeAndPort ==
    \A i \in DOMAIN exchangeReqs :
        /\ selected = "code"
        /\ srv = "Fulfilled"
        /\ srvResult.kind = "code"
        /\ exchangeReqs[i].code = srvResult.code
        /\ exchangeReqs[i].code # NoCode
        /\ exchangeReqs[i].port = srvPort

C12_Witness ==
    /\ exchangeReqs # <<>>
    /\ srvPort = "9998"
    /\ Len(exchangeReqs[1].code) > DisplayLen

\* C13: no token of the exchange payload (loginToken, sessionId,
\* keepAliveToken) is written in full to the terminal.
C13_TokensNotPrinted ==
    printed.tokens \cap {exchResp.data.loginToken, exchResp.data.sessionId,
                         exchResp.data.keepAliveToken} = {}

\* C14: a failure of the browser launcher is not fatal: login still enters
\* the wait, ends only through one of the signals of the wait, and a code
\* that arrives is exchanged and persisted as after a successful open.
C14_BrowserFailureNonFatal ==
    (browser # <<>> /\ ~browser[1].ok) =>
        /\ pc \in {"select", "parked", "resolved", "exchange", "done"}
        /\ outcome \in {"running", "Success", "TokenExchangeFailed",
                        "CallbackFailed", "CallbackTimeout"}
        /\ pc = "done" => selected \in {"code", "err", "done"}
        /\ (pc = "done" /\ selected = "code") =>
              /\ exchangeReqs = <<[code |-> srvResult.code, port |-> srvPort]>>
              /\ (exchResp.err = "none" /\ exchResp.success) =>
                    /\ outcome = "Success"
                    /\ persist \in {"saved", "saveFailed", "loadFailed"}
              /\ persist \in {"saved", "saveFailed"} =>
                    saveCalls = <<(<<exchResp.data.loginToken,
                                     exchResp.data.sessionId,
                                     exchResp.data.keepAliveToken,
                                     exchResp.data.expiresAt>>)>>

C14_Witness ==
    /\ browser # <<>>
    /\ ~browser[1].ok
    /\ outcome = "Success"
    /\ persist = "saved"
    /\ exchResp.data.loginToken = "LT"

\* C15: the CallbackServer is single-shot: it handles one request to the
\* callback path and is then Fulfilled for good; a request to another path
\* produces no result and leaves the server listening.
C15_SingleShot ==
    [][/\ handled' <= 1
       /\ handled' # handled =>
             /\ srv = "Listening" /\ srv' = "Fulfilled"
             /\ gpc' = "returned"
             /\ srvResult'.kind \in {"code", "err"}
       /\ otherReqs' # otherReqs =>
             /\ srv = "Listening" /\ srv' = "Listening"
             /\ gpc' = gpc
             /\ srvResult' = srvResult
             /\ handled' = handled
       /\ srv = "Fulfilled" =>
             /\ srv' = "Fulfilled"
             /\ srvResult' = srvResult
             /\ handled' = handled /\ otherReqs' = otherReqs]_vars

C15_Witness ==
    /\ srv = "Fulfilled"
    /\ handled = 1
    /\ otherReqs >= 1
    /\ srvResult.kind = "code"

\* C16: when start() has returned the server is Fulfilled, TimedOut or
\* BindFailed and holds no port; requests are processed only while Listening.
C16_PortReleasedOnReturn ==
    [][/\ gpc' \in {"returned", "exited"} =>
             /\ srv' \in {"Fulfilled", "TimedOut", "BindFailed"}
             /\ ListenerPort' = {}
       /\ (handled' # handled \/ otherReqs' # otherReqs) => srv = "Listening"]_vars

C16_Witness ==
    /\ gpc = "exited"
    /\ srv = "TimedOut"
    /\ srvPort \in AltPorts
    /\ ListenerPort = {}

\* C18: the first signal of the wait decides: when the goroutine delivered an
\* authorization code before the deadline expired, login goes on to the token
\* exchange and does not report CallbackTimeout.
C18_CodeBeforeDeadlineWins ==
    (\E i \in DOMAIN sends : sends[i].ch = "code" /\ ~sends[i].expired) =>
        /\ outcome # "CallbackTimeout"
        /\ pc = "done" => exchangeReqs # <<>>

\* C19: login returns success only if an authorization code was received
\* and the token exchange reported success; every other way of ending
\* (OAuthRequestFailed, PortUnavailable, CallbackFailed, CallbackTimeout,
\* TokenExchangeFailed) ends the command with an error.
C19_SuccessOnlyAfterExchange ==
    pc = "done" =>
        /\ outcome = "Success" =>
              /\ selected = "code"
              /\ srvResult.kind = "code"
              /\ code = srvResult.code /\ code # NoCode
              /\ ExchangeAnswered
              /\ exchResp.success
        /\ ~(selected = "code" /\ ExchangeAnswered /\ exchResp.success) =>
              /\ ReturnedError
              /\ outcome \in {"OAuthRequestFailed", "PortUnavailable", "EmptyOAuthURL",
                              "CallbackFailed", "CallbackTimeout",
                              "TokenExchangeFailed"}
        /\ selected = "err" => outcome = "CallbackFailed"
        /\ selected = "done" => outcome = "CallbackTimeout"

C19_Witness ==
    /\ outcome = "Success"
    /\ persist = "loadFailed"
    /\ selected = "code"
    /\ Len(code) > DisplayLen

\* C20: nothing is retried: at most two OAuth URL requests (the second only
\* with a negotiated port), one server start, one browser open, one exchange
\* request and one SaveTokens call; once login has ended no further request
\* or call is made.
C20_NoRetries ==
    [][/\ Len(urlReqs') <= 2
       /\ Len(urlReqs') = 2 =>
             /\ selectedPort' # NoPort
             /\ urlReqs'[2].localhostPort = selectedPort'
       /\ Len(browser') <= 1
       /\ Len(exchangeReqs') <= 1
       /\ cfgLoads' <= 1
       /\ Len(saveCalls') <= 1
       /\ (gpc' = "started" /\ gpc # "started") => gpc = "none"
       /\ srvPort' # srvPort => srvPort = NoPort
       /\ outcome # "running" =>
             /\ urlReqs' = urlReqs
             /\ browser' = browser
             /\ exchangeReqs' = exchangeReqs
             /\ cfgLoads' = cfgLoads
             /\ saveCalls' = saveCalls
             /\ gpc' # "started"]_vars

C20_Witness ==
    /\ pc = "done"
    /\ Len(urlReqs) = 2
    /\ Len(browser) = 1
    /\ Len(exchangeReqs) = 1
    /\ Len(saveCalls) = 1
    /\ srvPort # NoPort

\* C21: the CallbackServer is started and the browser is opened only when
\* the final OAuth URL response has success = true and a non-empty invokeURL;
\* when the first or the second OAuth URL request fails, or the final URL is
\* empty, login fails with no goroutine started, no port bound by the
\* CallbackServer and no browser opened.
C21_ServerOnlyAfterValidURL ==
    /\ (gpc # "none" \/ srv # "Idle" \/ srvPort # NoPort \/ browser # <<>>) =>
          /\ FinalResponse.err = "none"
          /\ FinalResponse.success
          /\ FinalResponse.invokeURL # ""
          /\ finalURL = FinalResponse.invokeURL
    /\ (\/ resp1.err \notin {"unset", "none"}
        \/ (resp1.err = "none" /\ ~resp1.success)
        \/ resp2.err \notin {"unset", "none"}
        \/ (resp2.err = "none" /\ ~resp2.success)
        \/ (finalFrom # 0 /\ finalURL = "" /\ pc # "validate")) =>
          /\ pc = "done"
          /\ outcome \in {"OAuthRequestFailed", "EmptyOAuthURL"}
          /\ gpc = "none" /\ srv = "Idle" /\ srvPort = NoPort
          /\ browser = <<>>

C21_Witness ==
    /\ outcome = "EmptyOAuthURL"
    /\ Len(urlReqs) = 2
    /\ resp2.success
    /\ gpc = "none"
    /\ browser = <<>>

\* C22: the goroutine produces one result per login, on one of the two
\* channels (the error channel for an error, the code channel for a code);
\* its send never blocks, so once StartCallbackServer has returned the
\* goroutine ends, also when runLogin has left the select and takes nothing.
C22_OneResultNeverBlocks ==
    /\ [](/\ Len(sends) <= 1
          /\ gpc = "exited" <=> Len(sends) = 1
          /\ Len(codeChan) + Len(errChan) <= 1
          /\ sends # <<>> =>
                sends[1].ch = (IF srvResult.kind = "code" THEN "code" ELSE "err")
          /\ gpc = "returned" => ENABLED GoroutineSend)
    /\ (gpc = "returned") ~> (gpc = "exited")

C22_Witness ==
    /\ gpc = "exited"
    /\ pc = "done"
    /\ selected = "done"
    /\ Len(sends) = 1
    /\ codeChan # <<>>

\* C23: for an authorization code of any length, the empty code and codes
\* shorter than 20 characters included, the displayed prefix is the first
\* min(len(code), 20) characters of the code and the slice is never out of
\* range.
C23_PrefixLengthInRange ==
    pc \in {"exchange", "done"} =>
        /\ printed.codePrefix # Panic
        /\ Len(printed.codePrefix) =
              (IF Len(code) <= DisplayLen THEN Len(code) ELSE DisplayLen)
        /\ \A i \in 1..Len(printed.codePrefix) : printed.codePrefix[i] = code[i]

C23_Witness ==
    /\ pc = "exchange"
    /\ Len(code) = 0
    /\ printed.codePrefix = <<>>

=============================================================================
